---- MODULE Spec2Model ----
(***************************************************************************)
(* The HTTP gateway between a Zendesk iframe client and the upstream       *)
(* completion provider.  Three deployments of the server exist in the      *)
(* repository:                                                             *)
(*   src/unnamed/part_000  messages mode: POST /generate, POST /chat-stream*)
(*   src/server.js         prompt mode:   POST /generate                   *)
(*   src/unnamed/part_001  prompt mode:   POST /generate                   *)
(* A request slot s holds one HTTP request, the position of its handler,   *)
(* the response object (status, JSON body, log of calls on `res`), the     *)
(* heartbeat timer and the upstream call of that request.                  *)
(***************************************************************************)
EXTENDS Integers, Sequences, FiniteSets, TLC

VARIABLES apiKey, env, origin, gate, acao, completion, clock, req, pc, status,
          jsonBody, sseHeaders, hbActive, ended, connected, log, upReq,
          upState, upChunks, upErr, ticks

vars == <<apiKey, env, origin, gate, acao, completion, clock, req, pc, status,
          jsonBody, sseHeaders, hbActive, ended, connected, log, upReq,
          upState, upChunks, upErr, ticks>>

\* ------------------------------------------------------------------ bounds
\* Upstream chunks one stream may yield before it ends or fails.
MaxChunks == 2
\* Heartbeat ticks one timer may fire in a run.
MaxTicks == 2

\* The request slots.  Spec uses slot 1 only; slot 2 stays "off".
Sess == {1, 2}

\* ------------------------------------------------------------ JS values
\* A JavaScript value as the handlers see it: its type tag, its text when it
\* is a string, its elements when it is an array.
JsUndef == [t |-> "undefined", s |-> "", a |-> <<>>]
JsStr(x) == [t |-> "string", s |-> x, a |-> <<>>]
JsNum == [t |-> "number", s |-> "5", a |-> <<>>]
JsArr(xs) == [t |-> "array", s |-> "", a |-> xs]

\* JavaScript truthiness (ToBoolean) of the values above: undefined and the
\* empty string are falsy; a non-zero number, a non-empty string and every
\* array (the empty one too) are truthy.
Truthy(v) == \/ v.t = "array"
             \/ v.t = "number"
             \/ (v.t = "string" /\ v.s # "")

\* Array.isArray
IsArray(v) == v.t = "array"

\* One element of a messages array: ctype is the JS type of its content.
Msg(r, ct, c) == [role |-> r, ctype |-> ct, content |-> c]

Roles == {"system", "user", "assistant"}

\* A message as the data model defines it (spec section 3).
WellFormedMsg(m) == m.role \in Roles /\ m.ctype = "string"

\* req.body after the body-parser middleware.
Body(present, messages, prompt) ==
    [present |-> present, messages |-> messages, prompt |-> prompt]

NoBody == Body(FALSE, JsUndef, JsUndef)

MessagesBodies ==
    { NoBody,
      Body(TRUE, JsUndef, JsUndef),
      Body(TRUE, JsStr("hi"), JsUndef),
      Body(TRUE, JsArr(<<>>), JsUndef),
      Body(TRUE, JsArr(<<Msg("user", "string", "hi")>>), JsUndef),
      Body(TRUE, JsArr(<<Msg("system", "string", "be brief"),
                         Msg("user", "string", "hi")>>), JsUndef),
      Body(TRUE, JsArr(<<Msg("robot", "string", "hi")>>), JsUndef),
      Body(TRUE, JsArr(<<Msg("user", "number", "5")>>), JsUndef) }

PromptBodies ==
    { NoBody,
      Body(TRUE, JsUndef, JsUndef),
      Body(TRUE, JsUndef, JsStr("")),
      Body(TRUE, JsUndef, JsStr("hello")),
      Body(TRUE, JsUndef, JsStr(" ")),
      Body(TRUE, JsUndef, JsNum),
      Body(TRUE, JsUndef, JsArr(<<>>)) }

\* ---------------------------------------------------------------- frames
NoFrame == [kind |-> "none", text |-> ""]
\* `data: ${JSON.stringify({ delta })}\n\n`
Data(d) == [kind |-> "data", text |-> d]
\* `: keep-alive\n\n`
KeepAlive == [kind |-> "comment", text |-> "keep-alive"]
\* "data: [DONE]\n\n"
Done == [kind |-> "done", text |-> "[DONE]"]
\* `event: error\ndata: ${JSON.stringify({ message })}\n\n`
ErrorFrame(m) == [kind |-> "error", text |-> m]

\* ------------------------------------------------------ upstream values
\* One chunk of the upstream stream: chunk.choices?.[0]?.delta?.content is
\* either absent (has = FALSE) or a string.
Chunk(has, text) == [has |-> has, text |-> text]
Chunks == { Chunk(TRUE, "Hel"), Chunk(TRUE, "lo"), Chunk(TRUE, ""),
            Chunk(FALSE, "") }

\* A thrown value: undefined/null (isObj = FALSE), or an object with a
\* possibly empty message.
Err(isObj, message) == [isObj |-> isObj, message |-> message]
Errs == { Err(TRUE, "rate limit"), Err(TRUE, ""), Err(FALSE, "") }
\* No value thrown (yet).
NoErr == Err(FALSE, "-")

\* A request handed to openai.chat.completions.create.
UpCall(messages, stream) == [messages |-> messages, stream |-> stream]

NoJson == [kind |-> "none", text |-> <<>>]
ErrorJson(m) == [kind |-> "error", text |-> <<m>>]
ReplyJson(r) == [kind |-> "reply", text |-> r]

\* A completion returned by the non-streaming call:
\* completion.choices?.[0]?.message?.content is absent or a string, kept as
\* its sequence of characters.
Content(has, chars) == [has |-> has, chars |-> chars]
Completions == { Content(FALSE, <<>>), Content(TRUE, <<>>),
                 Content(TRUE, <<"H", "i">>), Content(TRUE, <<" ">>),
                 Content(TRUE, <<" ", "H", "i", " ">>) }
\* No completion received (yet).
NoCompletion == Content(FALSE, <<"-">>)

Placeholder == <<"(No content returned from model)">>

Persona ==
    "You are a helpful Tier 3 support assistant for Chaos (V-Ray, Phoenix, Vantage, Cloud)."

\* ---------------------------------------------------------------- origins
\* The value of an Origin header or of an allow-list entry, as a string in
\* parts: absent (no header, or ""), an absolute URL (scheme, host labels,
\* explicit port, number of trailing slashes), or text that is no URL
\* (such as "null").
AbsentOrigin ==
    [kind |-> "absent", scheme |-> "", labels |-> <<>>, port |-> "",
     slashes |-> 0]
OpaqueOrigin ==
    [kind |-> "opaque", scheme |-> "", labels |-> <<"null">>, port |-> "",
     slashes |-> 0]
Url(scheme, labels, port, slashes) ==
    [kind |-> "url", scheme |-> scheme, labels |-> labels, port |-> port,
     slashes |-> slashes]

Localhost == Url("http", <<"localhost">>, "3000", 0)
Loopback == Url("http", <<"127.0.0.1">>, "3000", 0)
Acme == Url("https", <<"acme", "zendesk", "com">>, "", 0)
AppHost == Url("https", <<"1", "apps", "zdusercontent", "com">>, "", 0)
Evil == Url("https", <<"evil", "example", "com">>, "", 0)

\* The same origin string followed by "/".
WithSlash(o) == [o EXCEPT !.slashes = @ + 1]
\* The same origin with an explicit port.
WithPort(o, p) == [o EXCEPT !.port = p]

\* The Origin headers a request may carry.
Origins ==
    { AbsentOrigin, OpaqueOrigin, Localhost, WithSlash(Localhost), Loopback,
      Acme, WithSlash(Acme), AppHost, WithPort(AppHost, "8443"),
      WithPort(Acme, "8443"), Evil }

\* The entries of ZENDESK_ORIGINS / ZENDESK_ORIGIN after split(",") and
\* trim(), empty entries dropped.
EnvLists == { <<>>, <<Acme>>, <<WithSlash(Acme)>> }

\* ----------------------------------------------------- the response object
\* An entry of the log of calls a handler makes, in program order.
Ev(e) == [ev |-> e, frame |-> NoFrame, st |-> "-"]

\* res.write(frame) never throws.  What becomes of the frame depends on the
\* response: after res.end() it is refused (write after end), on a connection
\* the client has dropped it is discarded, otherwise it goes on the wire.
WriteSt(isEnded, isConn) ==
    IF isEnded THEN "ended" ELSE IF ~isConn THEN "destroyed" ELSE "ok"

\* ResWrite with the frame put in front of what was written before.
ResWriteFront(lg, isEnded, isConn, f) ==
    <<[ev |-> "write", frame |-> f, st |-> WriteSt(isEnded, isConn)]>> \o lg

ResWrite(lg, isEnded, isConn, f) ==
    Append(lg, [ev |-> "write", frame |-> f, st |-> WriteSt(isEnded, isConn)])

\* The frames of a log that went on the wire, in order.
RECURSIVE Wire(_)
Wire(lg) ==
    IF lg = <<>> THEN <<>>
    ELSE IF Head(lg).ev = "write" /\ Head(lg).st = "ok"
         THEN <<Head(lg).frame>> \o Wire(Tail(lg))
         ELSE Wire(Tail(lg))

\* The write calls of a log that did not go on the wire.
LateWrites(lg) ==
    { i \in 1..Len(lg) : lg[i].ev = "write" /\ lg[i].st # "ok" }

\* ------------------------------------------------------------ validation
\* const { messages, ... } = req.body || {}
MessagesOf(b) == IF b.present THEN b.messages ELSE JsUndef

\* MessagesRejected without the Array.isArray test.
MessagesRejectedNoArrayTest(b) == ~Truthy(MessagesOf(b))

\* if (!messages || !Array.isArray(messages))
MessagesRejected(b) ==
    ~Truthy(MessagesOf(b)) \/ ~IsArray(MessagesOf(b))

\* ErrMessage that drops the thrown value's own message.
ErrMessageGeneric(err, fallback) == fallback

\* (err && err.message) || fallback
ErrMessage(err, fallback) ==
    IF err.isObj /\ err.message # "" THEN err.message ELSE fallback

\* DeltaFrames that tests only whether the content is present.
DeltaFramesAnyString(c) == IF c.has THEN <<Data(c.text)>> ELSE <<>>

\* const delta = chunk.choices?.[0]?.delta?.content; if (delta) res.write(...)
DeltaFrames(c) == IF c.has /\ c.text # "" THEN <<Data(c.text)>> ELSE <<>>

\* clearTimeout() in the catch block is called without the timer handle
\* (`heartbeat` is scoped to the try block): it cancels nothing.
ClearTimeoutNoHandle(active) == active

\* clearInterval(heartbeat)
ClearInterval(active) == FALSE

\* The period of the heartbeat timer, in milliseconds.
HeartbeatMs == 15000

\* The grain of time: half a period.
ClockStep == HeartbeatMs \div 2

\* ------------------------------------------------------------------ Init
Routes == {"chat-stream", "generate-messages", "generate-server",
           "generate-part001"}

Req(route, body) == [route |-> route, body |-> body]

Requests ==
    { Req(r, b) : r \in {"chat-stream", "generate-messages"},
                  b \in MessagesBodies }
    \cup { Req(r, b) : r \in {"generate-server", "generate-part001"},
                       b \in PromptBodies }

NoReq == Req("none", NoBody)

InitCommon ==
    /\ gate = [s \in Sess |-> "pending"]
    /\ acao = [s \in Sess |-> AbsentOrigin]
    /\ completion = [s \in Sess |-> NoCompletion]
    /\ clock = [s \in Sess |-> 0]
    /\ status = [s \in Sess |-> 0]
    /\ jsonBody = [s \in Sess |-> NoJson]
    /\ sseHeaders = [s \in Sess |-> FALSE]
    /\ hbActive = [s \in Sess |-> FALSE]
    /\ ended = [s \in Sess |-> FALSE]
    /\ connected = [s \in Sess |-> TRUE]
    /\ log = [s \in Sess |-> <<>>]
    /\ upReq = [s \in Sess |-> <<>>]
    /\ upState = [s \in Sess |-> "idle"]
    /\ upChunks = [s \in Sess |-> <<>>]
    /\ upErr = [s \in Sess |-> NoErr]
    /\ ticks = [s \in Sess |-> 0]

\* The shape of the state: per slot, the request, the handler's position,
\* the response (status, JSON body, SSE headers, ended, connection), the
\* heartbeat timer with the ticks it ran, and the upstream call (requests
\* made, state, chunks yielded, value thrown).
TypeOK ==
    /\ apiKey \in BOOLEAN
    /\ \A i \in 1..Len(env) : env[i].kind = "url"
    /\ \A s \in Sess :
          /\ req[s] \in Requests \cup {NoReq}
          /\ origin[s].kind \in {"absent", "opaque", "url"}
          /\ gate[s] \in {"pending", "allowed", "denied", "error"}
          /\ acao[s].kind \in {"absent", "url"}
          /\ completion[s] \in Completions \cup {NoCompletion}
          /\ clock[s] \in 0..(MaxTicks * HeartbeatMs)
          /\ pc[s] \in {"off", "received", "blocked", "rejected", "opening",
                        "streaming", "completed", "failed", "awaiting",
                        "replied", "errored"}
          /\ status[s] \in {0, 200, 400, 500}
          /\ jsonBody[s].kind \in {"none", "error", "reply"}
          /\ sseHeaders[s] \in BOOLEAN
          /\ hbActive[s] \in BOOLEAN
          /\ ended[s] \in BOOLEAN
          /\ connected[s] \in BOOLEAN
          /\ \A i \in 1..Len(log[s]) :
                log[s][i].ev \in {"writeHead", "status", "json", "flushHeaders",
                                 "setInterval", "create", "write",
                                 "clearInterval", "end"}
          /\ Len(upReq[s]) <= 1
          /\ upState[s] \in {"idle", "pending", "open", "ended", "failed",
                             "rejected"}
          /\ \A i \in 1..Len(upChunks[s]) : upChunks[s][i] \in Chunks
          /\ upErr[s] \in Errs \cup {NoErr}
          /\ ticks[s] \in 0..MaxTicks

\* One request in flight, on any route with any body.
Init ==
    /\ InitCommon
    /\ apiKey \in BOOLEAN
    /\ env = <<>>
    /\ origin = [s \in Sess |-> AbsentOrigin]
    /\ \E r \in Requests :
          /\ req = [s \in Sess |-> IF s = 1 THEN r ELSE NoReq]
          /\ pc = [s \in Sess |-> IF s = 1 THEN "received" ELSE "off"]

\* ------------------------------------------------------ the origin gate
\* The deployment that serves a route.
Deployment(route) ==
    IF route \in {"chat-stream", "generate-messages"} THEN "part_000"
    ELSE IF route = "generate-server" THEN "server" ELSE "part_001"

\* !origin: no Origin header (or an empty one).
Falsy(o) == o.kind = "absent"

\* new URL(o) does not throw.
Parses(o) == o.kind = "url"

\* s.endsWith("." + suffix) on dot-separated labels: the suffix's labels
\* close the name and at least one label comes before them.
EndsWith(labels, suffix) ==
    /\ Len(labels) > Len(suffix)
    /\ SubSeq(labels, Len(labels) - Len(suffix) + 1, Len(labels)) = suffix

\* normalize = (o) => (o || "").replace(/\/$/, ""): one trailing slash off.
normalize(o) ==
    IF o.kind = "url" /\ o.slashes > 0 THEN [o EXCEPT !.slashes = @ - 1]
    ELSE o

\* part_000
STATIC_ALLOW == {Localhost, Loopback}

\* originAllowed without the host suffixes.
originAllowedListOnly(o) ==
    IF Falsy(o) THEN TRUE
    ELSE IF ~Parses(o) THEN FALSE
    ELSE o \in STATIC_ALLOW

originAllowed(o) ==
    IF Falsy(o) THEN TRUE
    ELSE IF ~Parses(o) THEN FALSE
    ELSE \/ o \in STATIC_ALLOW
         \/ EndsWith(o.labels, <<"zendesk", "com">>)
         \/ EndsWith(o.labels, <<"zdusercontent", "com">>)

\* server.js: ALLOWED_ORIGINS, its env entries normalized at load.
AllowedOriginsServer(e) ==
    { normalize(e[i]) : i \in 1..Len(e) } \cup {Localhost}

\* server.js: the `ok` of the cors callback.  host is URL.host, which
\* carries the port when the origin names one.
OkServer(origin0, e) ==
    LET o == normalize(origin0)
    IN  \/ Falsy(o)
        \/ o \in AllowedOriginsServer(e)
        \/ /\ Parses(o)
           /\ o.port = ""
           /\ EndsWith(o.labels, <<"apps", "zdusercontent", "com">>)

\* part_001: ALLOWED_ORIGINS, its env entries as written.
AllowedOrigins001(e) == { e[i] : i \in 1..Len(e) } \cup {Localhost}

\* part_001: the `ok` of the cors callback.
Ok001(o, e) == Falsy(o) \/ o \in AllowedOrigins001(e)

\* The cors middleware after cb(null, v): with a falsy v it calls next()
\* and sets no header; with true it reflects the request's Origin, with a
\* string it sends that string, as Access-Control-Allow-Origin.
CorsDecided(s, ok, header) ==
    /\ gate' = [gate EXCEPT ![s] = IF ok THEN "allowed" ELSE "denied"]
    /\ acao' = [acao EXCEPT ![s] = IF ok THEN header ELSE AbsentOrigin]
    /\ UNCHANGED <<apiKey, env, origin, completion, clock, req, pc, status,
                   jsonBody, sseHeaders, hbActive, ended, connected, log,
                   upReq, upState, upChunks, upErr, ticks>>

\* part_000: cb(null, true), or cb(new Error(...)): the middleware passes
\* the error to next(err), no route handler runs and Express's default
\* error handler answers 500.
Cors000(s) ==
    /\ pc[s] = "received"
    /\ gate[s] = "pending"
    /\ Deployment(req[s].route) = "part_000"
    /\ IF originAllowed(origin[s])
       THEN CorsDecided(s, TRUE, origin[s])
       ELSE /\ gate' = [gate EXCEPT ![s] = "error"]
            /\ status' = [status EXCEPT ![s] = 500]
            /\ ended' = [ended EXCEPT ![s] = TRUE]
            /\ pc' = [pc EXCEPT ![s] = "blocked"]
            /\ log' = [log EXCEPT ![s] = @ \o <<Ev("status"), Ev("end")>>]
            /\ UNCHANGED <<apiKey, env, origin, acao, completion, clock, req,
                           jsonBody, sseHeaders, hbActive, connected,
                           upReq, upState, upChunks, upErr, ticks>>

\* server.js: cb(null, ok ? (o || true) : false)
CorsServer(s) ==
    /\ pc[s] = "received"
    /\ gate[s] = "pending"
    /\ Deployment(req[s].route) = "server"
    /\ CorsDecided(s, OkServer(origin[s], env), normalize(origin[s]))

\* part_001: cb(null, ok ? origin || true : false)
Cors001(s) ==
    /\ pc[s] = "received"
    /\ gate[s] = "pending"
    /\ Deployment(req[s].route) = "part_001"
    /\ CorsDecided(s, Ok001(origin[s], env), origin[s])

\* ------------------------------------------------- POST /chat-stream
\* StartCalls with the upstream called before the headers are flushed.
StartCallsCreateFirst ==
    <<Ev("create"), Ev("flushHeaders"), Ev("setInterval")>>

\* What an accepted /chat-stream request does before its first await, in
\* program order: res.flushHeaders(), setInterval(...), create(...).
StartCalls == <<Ev("flushHeaders"), Ev("setInterval"), Ev("create")>>

\* SetInterval that starts no timer.
SetIntervalForgotten(active) == active

\* const heartbeat = setInterval(..., 15000)
SetInterval(active) == TRUE

\* The handler up to its first await: validation, then either the 400 JSON
\* reply, or the SSE headers, the heartbeat and the upstream call.
ChatStreamStart(s) ==
    /\ pc[s] = "received"
    /\ gate[s] \in {"allowed", "denied"}
    /\ req[s].route = "chat-stream"
    /\ IF MessagesRejected(req[s].body)
       THEN /\ status' = [status EXCEPT ![s] = 400]
            /\ jsonBody' = [jsonBody EXCEPT
                              ![s] = ErrorJson("messages array is required")]
            /\ log' = [log EXCEPT ![s] = @ \o <<Ev("writeHead"), Ev("end")>>]
            /\ ended' = [ended EXCEPT ![s] = TRUE]
            /\ pc' = [pc EXCEPT ![s] = "rejected"]
            /\ UNCHANGED <<sseHeaders, hbActive, upReq, upState>>
       ELSE /\ status' = [status EXCEPT ![s] = 200]
            /\ sseHeaders' = [sseHeaders EXCEPT ![s] = TRUE]
            /\ hbActive' = [hbActive EXCEPT ![s] = SetInterval(@)]
            /\ log' = [log EXCEPT ![s] = @ \o StartCalls]
            /\ upReq' = [upReq EXCEPT
                           ![s] = Append(@, UpCall(MessagesOf(req[s].body).a,
                                               TRUE))]
            /\ upState' = [upState EXCEPT ![s] = "pending"]
            /\ pc' = [pc EXCEPT ![s] = "opening"]
            /\ UNCHANGED <<jsonBody, ended>>
    /\ UNCHANGED <<apiKey, env, origin, gate, acao, completion, clock, req,
                   connected, upChunks, upErr, ticks>>

\* await openai.chat.completions.create(...) resolves with a stream.  An
\* upstream call without a credential cannot succeed.
StreamOpened(s) ==
    /\ pc[s] = "opening"
    /\ upState[s] = "pending"
    /\ apiKey
    /\ upState' = [upState EXCEPT ![s] = "open"]
    /\ pc' = [pc EXCEPT ![s] = "streaming"]
    /\ UNCHANGED <<apiKey, env, origin, gate, acao, completion, clock, req,
                   status, jsonBody, sseHeaders, hbActive, ended,
                   connected, log, upReq, upChunks, upErr, ticks>>

\* CatchLog that ends the response without an error frame.
CatchLogSilent(lg, isEnded, isConn, err) == Append(lg, Ev("end"))

\* The catch block of /chat-stream, entered with the thrown value err:
\* the log after it, given whether the response had ended and is connected.
CatchLog(lg, isEnded, isConn, err) ==
    Append(ResWrite(lg, isEnded, isConn,
                    ErrorFrame(ErrMessage(err, "OpenAI stream error"))),
           Ev("end"))

\* CatchStream that sets the 500 status of the JSON error reply instead of
\* writing an error frame.
CatchStreamJson(s, err) ==
    /\ hbActive' = [hbActive EXCEPT ![s] = ClearTimeoutNoHandle(@)]
    /\ log' = [log EXCEPT ![s] = @ \o <<Ev("status"), Ev("json")>>]
    /\ status' = [status EXCEPT ![s] = 500]
    /\ ended' = [ended EXCEPT ![s] = TRUE]
    /\ pc' = [pc EXCEPT ![s] = "failed"]

\* The whole catch block.  res.write and res.end of a string never throw,
\* so the inner catch (the 500 JSON body when !res.headersSent) is never
\* entered.
CatchStream(s, err) ==
    /\ hbActive' = [hbActive EXCEPT ![s] = ClearTimeoutNoHandle(@)]
    /\ log' = [log EXCEPT ![s] = CatchLog(@, ended[s], connected[s], err)]
    \* res.write on a response whose headers are not out sends them (200).
    /\ status' = [status EXCEPT ![s] = IF @ = 0 THEN 200 ELSE @]
    /\ ended' = [ended EXCEPT ![s] = TRUE]
    /\ pc' = [pc EXCEPT ![s] = "failed"]

\* await openai.chat.completions.create(...) rejects.
StreamOpenFailed(s) ==
    /\ pc[s] = "opening"
    /\ upState[s] = "pending"
    /\ \E err \in Errs :
          /\ CatchStream(s, err)
          /\ upErr' = [upErr EXCEPT ![s] = err]
    /\ upState' = [upState EXCEPT ![s] = "rejected"]
    /\ UNCHANGED <<apiKey, env, origin, gate, acao, completion, clock, req,
                   jsonBody, sseHeaders, connected, upReq,
                   upChunks, ticks>>

\* One iteration of `for await (const chunk of stream)`.
StreamChunk(s) ==
    /\ pc[s] = "streaming"
    /\ Len(upChunks[s]) < MaxChunks
    /\ \E c \in Chunks :
          /\ upChunks' = [upChunks EXCEPT ![s] = Append(@, c)]
          /\ log' = [log EXCEPT ![s] =
                       IF DeltaFrames(c) = <<>> THEN @
                       ELSE ResWrite(@, ended[s], connected[s],
                                     DeltaFrames(c)[1])]
    /\ UNCHANGED <<apiKey, env, origin, gate, acao, completion, clock, req,
                   pc, status, jsonBody, sseHeaders, hbActive,
                   ended, connected, upReq, upState, upErr, ticks>>

\* StreamEnded with one timer handle shared by all requests.
StreamEndedSharedTimer(s) ==
    /\ pc[s] = "streaming"
    /\ log' = [log EXCEPT ![s] =
                 ResWrite(@, ended[s], connected[s], Done)
                     \o <<Ev("clearInterval"), Ev("end")>>]
    /\ hbActive' = [t \in Sess |-> ClearInterval(hbActive[t])]
    /\ ended' = [ended EXCEPT ![s] = TRUE]
    /\ upState' = [upState EXCEPT ![s] = "ended"]
    /\ pc' = [pc EXCEPT ![s] = "completed"]
    /\ UNCHANGED <<apiKey, env, origin, gate, acao, completion, clock, req,
                   status, jsonBody, sseHeaders, connected,
                   upReq, upChunks, upErr, ticks>>

\* The stream ends: res.write("data: [DONE]\n\n"); clearInterval; res.end().
StreamEnded(s) ==
    /\ pc[s] = "streaming"
    /\ log' = [log EXCEPT ![s] =
                 ResWrite(@, ended[s], connected[s], Done)
                     \o <<Ev("clearInterval"), Ev("end")>>]
    /\ hbActive' = [hbActive EXCEPT ![s] = ClearInterval(@)]
    /\ ended' = [ended EXCEPT ![s] = TRUE]
    /\ upState' = [upState EXCEPT ![s] = "ended"]
    /\ pc' = [pc EXCEPT ![s] = "completed"]
    /\ UNCHANGED <<apiKey, env, origin, gate, acao, completion, clock, req,
                   status, jsonBody, sseHeaders, connected,
                   upReq, upChunks, upErr, ticks>>

\* The stream raises while it is iterated.
StreamFailed(s) ==
    /\ pc[s] = "streaming"
    /\ \E err \in Errs :
          /\ CatchStream(s, err)
          /\ upErr' = [upErr EXCEPT ![s] = err]
    /\ upState' = [upState EXCEPT ![s] = "failed"]
    /\ UNCHANGED <<apiKey, env, origin, gate, acao, completion, clock, req,
                   jsonBody, sseHeaders, connected, upReq,
                   upChunks, ticks>>

\* The timer of s has a callback due: since setInterval more periods have
\* gone by than callbacks have run.
TickDue(s) == hbActive[s] /\ (ticks[s] + 1) * HeartbeatMs <= clock[s]

\* Time passes for s, measured from its setInterval call.  The event loop
\* is idle between the steps of a handler, so a due timer callback runs
\* before more time goes by; an upstream event arriving at the very instant
\* a callback falls due may be served before or after it.
Advance(s) ==
    /\ pc[s] \in {"opening", "streaming"} \/ hbActive[s]
    /\ ~TickDue(s)
    /\ clock[s] < MaxTicks * HeartbeatMs
    /\ clock' = [clock EXCEPT ![s] = @ + ClockStep]
    /\ UNCHANGED <<apiKey, env, origin, gate, acao, completion, req,
                   pc, status, jsonBody, sseHeaders, hbActive, ended,
                   connected, log, upReq, upState, upChunks, upErr, ticks>>

\* The setInterval callback: res.write(`: keep-alive\n\n`).
HeartbeatTick(s) ==
    /\ TickDue(s)
    /\ ticks[s] < MaxTicks
    /\ ticks' = [ticks EXCEPT ![s] = @ + 1]
    /\ log' = [log EXCEPT ![s] = ResWrite(@, ended[s], connected[s], KeepAlive)]
    /\ UNCHANGED <<apiKey, env, origin, gate, acao, completion, clock, req,
                   pc, status, jsonBody, sseHeaders, hbActive,
                   ended, connected, upReq, upState, upChunks, upErr>>

\* The client drops the connection of a stream that is still open.  The
\* handler registers no listener for it (no req.on("close"), no abort
\* signal passed to the upstream call): no handler code runs.
ClientDisconnect(s) ==
    /\ pc[s] \in {"opening", "streaming"}
    /\ connected[s]
    /\ connected' = [connected EXCEPT ![s] = FALSE]
    /\ UNCHANGED <<apiKey, env, origin, gate, acao, completion, clock, req,
                   pc, status, jsonBody, sseHeaders, hbActive,
                   ended, log, upReq, upState, upChunks, upErr, ticks>>

\* ------------------------------------------------------ POST /generate
\* String.prototype.trim on a sequence of characters.
RECURSIVE TrimStart(_)
TrimStart(cs) ==
    IF cs # <<>> /\ Head(cs) = " " THEN TrimStart(Tail(cs)) ELSE cs

RECURSIVE TrimEnd(_)
TrimEnd(cs) ==
    IF cs # <<>> /\ cs[Len(cs)] = " "
    THEN TrimEnd(SubSeq(cs, 1, Len(cs) - 1)) ELSE cs

Trim(cs) == TrimEnd(TrimStart(cs))

\* part_000: completion?.choices?.[0]?.message?.content ?? "(No content ...)"
ReplyMessages(c) == IF c.has THEN c.chars ELSE Placeholder

\* server.js, part_001:
\* completion.choices?.[0]?.message?.content?.trim() || "(No content ...)"
ReplyPrompt(c) ==
    IF c.has /\ Trim(c.chars) # <<>> THEN Trim(c.chars) ELSE Placeholder

\* server.js: (req.body && (req.body.prompt ?? req.body["prompt"])) || ""
PromptServer(b) ==
    IF b.present /\ Truthy(b.prompt) THEN b.prompt ELSE JsStr("")

\* part_001: (req.body && (req.body.prompt || req.body["prompt"])) || ""
PromptPart001(b) ==
    IF b.present /\ Truthy(b.prompt) THEN b.prompt ELSE JsStr("")

\* if (!prompt || typeof prompt !== "string")
PromptRejected(p) == ~Truthy(p) \/ p.t # "string"

\* PromptMessages with the two messages swapped.
PromptMessagesSwapped(p) ==
    <<Msg("user", "string", p.s), Msg("system", "string", Persona)>>

\* messages: [{ role: "system", content: <persona> }, { role: "user", content: prompt }]
PromptMessages(p) ==
    <<Msg("system", "string", Persona), Msg("user", "string", p.s)>>

\* res.status(code).json({ error: message })
JsonError(s, code, message, next) ==
    /\ status' = [status EXCEPT ![s] = code]
    /\ jsonBody' = [jsonBody EXCEPT ![s] = ErrorJson(message)]
    /\ log' = [log EXCEPT ![s] = @ \o <<Ev("status"), Ev("json")>>]
    /\ ended' = [ended EXCEPT ![s] = TRUE]
    /\ pc' = [pc EXCEPT ![s] = next]

\* await openai.chat.completions.create(params), non-streaming
CreateCall(s, messages) ==
    /\ upReq' = [upReq EXCEPT ![s] = Append(@, UpCall(messages, FALSE))]
    /\ upState' = [upState EXCEPT ![s] = "pending"]
    /\ log' = [log EXCEPT ![s] = Append(@, Ev("create"))]
    /\ pc' = [pc EXCEPT ![s] = "awaiting"]

\* part_000 /generate up to its await.
GenerateMessages(s) ==
    /\ pc[s] = "received"
    /\ gate[s] \in {"allowed", "denied"}
    /\ req[s].route = "generate-messages"
    /\ IF MessagesRejected(req[s].body)
       THEN /\ JsonError(s, 400, "messages array is required", "rejected")
            /\ UNCHANGED <<upReq, upState>>
       ELSE /\ CreateCall(s, MessagesOf(req[s].body).a)
            /\ UNCHANGED <<status, jsonBody, ended>>
    /\ UNCHANGED <<apiKey, env, origin, gate, acao, completion, clock, req,
                   sseHeaders, hbActive, connected, upChunks,
                   upErr, ticks>>

\* The prompt-mode /generate up to its await, given the prompt it extracted.
GeneratePromptBody(s, prompt) ==
    /\ IF ~apiKey
       THEN /\ JsonError(s, 500, "Missing OPENAI_API_KEY", "errored")
            /\ UNCHANGED <<upReq, upState>>
       ELSE IF PromptRejected(prompt)
       THEN /\ JsonError(s, 400, "Missing 'prompt' string in body", "rejected")
            /\ UNCHANGED <<upReq, upState>>
       ELSE /\ CreateCall(s, PromptMessages(prompt))
            /\ UNCHANGED <<status, jsonBody, ended>>
    /\ UNCHANGED <<apiKey, env, origin, gate, acao, completion, clock, req,
                   sseHeaders, hbActive, connected, upChunks,
                   upErr, ticks>>

\* server.js /generate
GenerateServer(s) ==
    /\ pc[s] = "received"
    /\ gate[s] \in {"allowed", "denied"}
    /\ req[s].route = "generate-server"
    /\ GeneratePromptBody(s, PromptServer(req[s].body))

\* part_001 /generate
GeneratePart001(s) ==
    /\ pc[s] = "received"
    /\ gate[s] \in {"allowed", "denied"}
    /\ req[s].route = "generate-part001"
    /\ GeneratePromptBody(s, PromptPart001(req[s].body))

\* The upstream call resolves: res.json({ reply }).
GenerateReplied(s) ==
    /\ pc[s] = "awaiting"
    /\ apiKey
    /\ \E c \in Completions :
          /\ completion' = [completion EXCEPT ![s] = c]
          /\ jsonBody' = [jsonBody EXCEPT
                            ![s] = ReplyJson(IF req[s].route = "generate-messages"
                                             THEN ReplyMessages(c)
                                             ELSE ReplyPrompt(c))]
    /\ status' = [status EXCEPT ![s] = 200]
    /\ log' = [log EXCEPT ![s] = Append(@, Ev("json"))]
    /\ ended' = [ended EXCEPT ![s] = TRUE]
    /\ upState' = [upState EXCEPT ![s] = "ended"]
    /\ pc' = [pc EXCEPT ![s] = "replied"]
    /\ UNCHANGED <<apiKey, env, origin, gate, acao, clock, req,
                   sseHeaders, hbActive, connected, upReq,
                   upChunks, upErr, ticks>>

\* GenerateFailed that calls the upstream again instead of answering.
GenerateFailedRetry(s) ==
    /\ pc[s] = "awaiting"
    /\ \E err \in Errs : upErr' = [upErr EXCEPT ![s] = err]
    /\ upReq' = [upReq EXCEPT ![s] = Append(@, @[1])]
    /\ log' = [log EXCEPT ![s] = Append(@, Ev("create"))]
    /\ UNCHANGED <<apiKey, env, origin, gate, acao, completion, clock, req, pc,
                   status, jsonBody, sseHeaders, hbActive, ended, connected,
                   upState, upChunks, ticks>>

\* The upstream call rejects: the catch block of /generate.
GenerateFailed(s) ==
    /\ pc[s] = "awaiting"
    /\ \E err \in Errs :
          /\ JsonError(s, 500, ErrMessage(err, "OpenAI error"), "errored")
          /\ upErr' = [upErr EXCEPT ![s] = err]
    /\ upState' = [upState EXCEPT ![s] = "failed"]
    /\ UNCHANGED <<apiKey, env, origin, gate, acao, completion, clock, req,
                   sseHeaders, hbActive, connected, upReq,
                   upChunks, ticks>>

\* ------------------------------------------------------------------ Next
Next ==
    \E s \in Sess :
       \/ Cors000(s)
       \/ CorsServer(s)
       \/ Cors001(s)
       \/ ChatStreamStart(s)
       \/ Advance(s)
       \/ StreamOpened(s)
       \/ StreamOpenFailed(s)
       \/ StreamChunk(s)
       \/ StreamEnded(s)
       \/ StreamFailed(s)
       \/ HeartbeatTick(s)
       \/ ClientDisconnect(s)
       \/ GenerateMessages(s)
       \/ GenerateServer(s)
       \/ GeneratePart001(s)
       \/ GenerateReplied(s)
       \/ GenerateFailed(s)

Spec == Init /\ [][Next]_vars

\* ------------------------------------- two concurrent /chat-stream calls
\* Two accepted /chat-stream requests in flight at once.  Each handler
\* invocation has its own res, heartbeat and stream (locals of the async
\* arrow function); only openai and app are shared.
TwoChunks == 1
TwoTicks == 1

\* The upstream of session 1 yields "Hel", that of session 2 yields "lo".
TwoChunkOf(s) == IF s = 1 THEN Chunk(TRUE, "Hel") ELSE Chunk(TRUE, "lo")

TwoLimit ==
    \A s \in Sess :
       /\ Len(upChunks[s]) <= TwoChunks
       /\ \A i \in 1..Len(upChunks[s]) : upChunks[s][i] = TwoChunkOf(s)
       /\ upErr[s] \in {NoErr, Err(TRUE, "rate limit")}
       /\ ticks[s] <= TwoTicks
       /\ clock[s] <= TwoTicks * HeartbeatMs

InitTwo ==
    /\ InitCommon
    /\ apiKey = TRUE
    /\ env = <<>>
    /\ origin = [s \in Sess |-> AbsentOrigin]
    /\ req = [s \in Sess |->
                Req("chat-stream",
                    Body(TRUE, JsArr(<<Msg("user", "string", "hi")>>),
                         JsUndef))]
    /\ pc = [s \in Sess |-> "received"]

NextTwo ==
    \E s \in Sess :
       \/ Cors000(s) /\ TwoLimit'
       \/ ChatStreamStart(s) /\ TwoLimit'
       \/ Advance(s) /\ TwoLimit'
       \/ StreamOpened(s) /\ TwoLimit'
       \/ StreamOpenFailed(s) /\ TwoLimit'
       \/ StreamChunk(s) /\ TwoLimit'
       \/ StreamEnded(s) /\ TwoLimit'
       \/ StreamFailed(s) /\ TwoLimit'
       \/ HeartbeatTick(s) /\ TwoLimit'
       \/ ClientDisconnect(s) /\ TwoLimit'

SpecTwo == InitTwo /\ [][NextTwo]_vars

\* ------------------------------------------- requests carrying an Origin
\* One body the handler rejects and one it accepts, per kind of route.
OriginBodies(route) ==
    IF Deployment(route) = "part_000"
    THEN {NoBody, Body(TRUE, JsArr(<<Msg("user", "string", "hi")>>), JsUndef)}
    ELSE {NoBody, Body(TRUE, JsUndef, JsStr("hello"))}

\* A request with any Origin header, and a second request to the same
\* deployment, without a body, with the same Origin header or none.  The
\* env lists are read by server.js and part_001 only.
InitOrigin ==
    /\ InitCommon
    /\ apiKey = TRUE
    /\ pc = [s \in Sess |-> "received"]
    /\ \E route \in Routes, o \in Origins :
       \E b \in OriginBodies(route), o2 \in {o, AbsentOrigin},
          e \in (IF Deployment(route) = "part_000" THEN {<<>>} ELSE EnvLists) :
          /\ env = e
          /\ req = [s \in Sess |-> Req(route, IF s = 1 THEN b ELSE NoBody)]
          /\ origin = [s \in Sess |-> IF s = 1 THEN o ELSE o2]

SpecOrigin == InitOrigin /\ [][Next]_vars

\* ================================================================ claims
StreamSess == { s \in Sess : req[s].route = "chat-stream" }

\* The frames of fs that are not keep-alive comments.
RECURSIVE StreamFrames(_)
StreamFrames(fs) ==
    IF fs = <<>> THEN <<>>
    ELSE IF Head(fs).kind = "comment" THEN StreamFrames(Tail(fs))
         ELSE <<Head(fs)>> \o StreamFrames(Tail(fs))

\* Every chunk of chs carries a non-empty text delta.
AllText(chs) == \A i \in 1..Len(chs) : chs[i].has /\ chs[i].text # ""

\* One Data frame per chunk, in order.
DataOf(chs) == [i \in 1..Len(chs) |-> Data(chs[i].text)]

\* The write calls of a log with a frame of one of the kinds ks.
WritesOf(lg, ks) ==
    { i \in 1..Len(lg) : lg[i].ev = "write" /\ lg[i].frame.kind \in ks }

\* C1: when the upstream of a /chat-stream call yields the non-empty deltas
\* d1..dn and ends normally, the frames a connected client receives are,
\* keep-alive comments aside, exactly Data(d1), ..., Data(dn), Done in that
\* order; the last call on the response is res.end() and the heartbeat
\* timer is no longer active.
C1_DeltasThenDone ==
    \A s \in StreamSess :
       (pc[s] = "completed" /\ connected[s] /\ AllText(upChunks[s])) =>
          /\ StreamFrames(Wire(log[s])) = DataOf(upChunks[s]) \o <<Done>>
          /\ ended[s]
          /\ log[s][Len(log[s])].ev = "end"
          /\ ~hbActive[s]

C1_Witness ==
    /\ pc[1] = "completed"
    /\ connected[1]
    /\ upChunks[1] = <<Chunk(TRUE, "Hel"), Chunk(TRUE, "lo")>>
    /\ ticks[1] > 0

\* C2: when the upstream yields k >= 0 non-empty deltas and then raises
\* while it is iterated, the frames a connected client receives are,
\* keep-alive comments aside, exactly the k Data frames in arrival order
\* followed by one Error frame; the Error frame carries the thrown value's
\* message (the fixed text "OpenAI stream error" when it has none); no Done
\* frame is written and the response is ended.
C2_DeltasThenError ==
    \A s \in StreamSess :
       (pc[s] = "failed" /\ upState[s] = "failed" /\ connected[s]
          /\ AllText(upChunks[s])) =>
          /\ StreamFrames(Wire(log[s])) =
                DataOf(upChunks[s]) \o
                <<ErrorFrame(IF upErr[s].isObj /\ upErr[s].message # ""
                             THEN upErr[s].message
                             ELSE "OpenAI stream error")>>
          /\ WritesOf(log[s], {"done"}) = {}
          /\ ended[s]

C2_Witness ==
    /\ pc[1] = "failed"
    /\ upState[1] = "failed"
    /\ connected[1]
    /\ upChunks[1] = <<Chunk(TRUE, "Hel")>>
    /\ upErr[1] = Err(TRUE, "rate limit")

\* C3: in every state where a stream session is Completed or Failed, its
\* heartbeat timer is not active and its upstream call is over.
C3_TimerCancelledOnExit ==
    \A s \in StreamSess :
       pc[s] \in {"completed", "failed"} =>
          ~hbActive[s] /\ upState[s] \notin {"pending", "open"}

\* C4: after the client has disconnected, the session stops: no frame is
\* written to the dropped connection, by the heartbeat or by the loop over
\* the upstream chunks.
C4_NoWriteAfterDisconnect ==
    \A s \in StreamSess :
       \A i \in 1..Len(log[s]) :
          log[s][i].ev = "write" => log[s][i].st # "destroyed"

\* C5: once res.end() has been called after the Done or the Error frame, no
\* frame of any kind is written to that response again.
C5_NoWriteAfterEnd ==
    \A s \in StreamSess :
       \A i \in 1..Len(log[s]) :
          log[s][i].ev = "write" => log[s][i].st # "ended"

\* The upstream of every call eventually answers, and an opened stream
\* eventually ends or fails; the event loop then runs the handler.
FairSpec ==
    /\ Spec
    /\ \A s \in Sess :
          /\ WF_vars(StreamOpened(s) \/ StreamOpenFailed(s))
          /\ WF_vars(StreamEnded(s) \/ StreamFailed(s))
          /\ WF_vars(GenerateReplied(s) \/ GenerateFailed(s))

\* The response of s is ended with exactly one terminal marker written,
\* which a client that is still connected has received.
Terminated(s) ==
    /\ ended[s]
    /\ Cardinality(WritesOf(log[s], {"done", "error"})) = 1
    /\ connected[s] =>
          Len(SelectSeq(Wire(log[s]),
                        LAMBDA f : f.kind \in {"done", "error"})) = 1

\* C6: every stream session that has sent its SSE headers eventually ends
\* its response with exactly one terminal marker written (Done or Error),
\* given that the upstream eventually answers, ends or fails; and no session
\* ever writes both a Done and an Error frame.
C6_EventuallyOneTerminal ==
    /\ \A s \in Sess : sseHeaders[s] ~> Terminated(s)
    /\ [](\A s \in Sess :
            ~(WritesOf(log[s], {"done"}) # {} /\ WritesOf(log[s], {"error"}) # {}))

C6_Witness ==
    /\ sseHeaders[1]
    /\ Terminated(1)
    /\ ticks[1] > 0
    /\ Len(upChunks[1]) > 0

\* C7: a /chat-stream call that fails before the SSE headers are out (its
\* body is rejected) is answered by a JSON error body with an error status
\* and no frame; one that fails after the headers are out gets exactly one
\* Error frame, status 200 as flushed and no JSON body; no call gets both
\* signals and no failed call gets neither.
C7_FailureSignalByHeaders ==
    \A s \in StreamSess :
       /\ (pc[s] = "rejected") =>
             /\ ~sseHeaders[s]
             /\ status[s] >= 400
             /\ jsonBody[s].kind = "error"
             /\ WritesOf(log[s], {"data", "comment", "done", "error"}) = {}
       /\ (pc[s] = "failed") =>
             /\ sseHeaders[s]
             /\ status[s] = 200
             /\ jsonBody[s] = NoJson
             /\ Cardinality(WritesOf(log[s], {"error"})) = 1
             /\ connected[s] =>
                   Len(SelectSeq(Wire(log[s]),
                                 LAMBDA f : f.kind = "error")) = 1
       /\ ~(jsonBody[s].kind = "error" /\ WritesOf(log[s], {"error"}) # {})

C7_Witness ==
    /\ pc[1] = "failed"
    /\ upState[1] = "rejected"
    /\ sseHeaders[1]
    /\ req[1].route = "chat-stream"

\* The routes of the messages-mode deployment.
MessagesSess ==
    { s \in Sess : req[s].route \in {"chat-stream", "generate-messages"} }

\* The body carries no messages array (absent body, {}, a non-array).
NoMessagesArray(b) == ~b.present \/ b.messages.t # "array"

\* C8: in messages mode, once the handler has looked at a body without a
\* messages array (such as {}), the response is the 400 JSON error and, for
\* that request, the upstream was never called, no SSE headers were sent
\* and no heartbeat timer was started; and a 400 is never combined with an
\* upstream call, SSE headers or a heartbeat.
C8_RejectedNeverReachesUpstream ==
    \A s \in MessagesSess :
       /\ (pc[s] # "received" /\ NoMessagesArray(req[s].body)) =>
             status[s] = 400
       /\ (status[s] = 400) =>
             /\ jsonBody[s] = ErrorJson("messages array is required")
             /\ upReq[s] = <<>>
             /\ upState[s] = "idle"
             /\ ~sseHeaders[s]
             /\ ~hbActive[s]
             /\ \A i \in 1..Len(log[s]) :
                   log[s][i].ev \notin {"setInterval", "create", "flushHeaders"}

C8_Witness ==
    /\ req[1] = Req("chat-stream", Body(TRUE, JsUndef, JsUndef))
    /\ status[1] = 400

\* A body the messages-mode validator of the data model accepts: a
\* non-empty list whose elements all have a role of the enum and a string
\* content.
WellFormedMessages(b) ==
    /\ b.present
    /\ b.messages.t = "array"
    /\ b.messages.a # <<>>
    /\ \A i \in 1..Len(b.messages.a) : WellFormedMsg(b.messages.a[i])

\* C9: in messages mode a request is forwarded to the upstream if and only
\* if its body is well formed; every other body is answered with the 400
\* "messages array is required" and never forwarded.
C9_AcceptedIffWellFormed ==
    \A s \in MessagesSess :
       pc[s] # "received" =>
          IF WellFormedMessages(req[s].body)
          THEN upReq[s] # <<>>
          ELSE /\ upReq[s] = <<>>
               /\ status[s] = 400
               /\ jsonBody[s] = ErrorJson("messages array is required")

PromptSess ==
    { s \in Sess : req[s].route \in {"generate-server", "generate-part001"} }

\* The body's prompt is a non-empty string.
HasPrompt(b) == b.present /\ b.prompt.t = "string" /\ b.prompt.s # ""

\* What C10 says of a handled prompt-mode request.
PromptOutcome(s) ==
    IF HasPrompt(req[s].body)
    THEN upReq[s] =
            <<UpCall(<<Msg("system", "string", Persona),
                       Msg("user", "string", req[s].body.prompt.s)>>, FALSE)>>
    ELSE /\ upReq[s] = <<>>
         /\ status[s] = 400
         /\ jsonBody[s] = ErrorJson("Missing 'prompt' string in body")

\* C10 as stated: in prompt mode every body with a non-empty string prompt
\* is forwarded as [system persona, user prompt], and every other body is
\* answered with the 400 "Missing 'prompt' string in body" without an
\* upstream call.
C10_PromptAsStated ==
    \A s \in PromptSess : pc[s] # "received" => PromptOutcome(s)

\* C10 as amended: the same, when the upstream credential is configured.
C10_PromptWhenConfigured ==
    \A s \in PromptSess : (pc[s] # "received" /\ apiKey) => PromptOutcome(s)

C10_Witness ==
    /\ apiKey
    /\ req[1] = Req("generate-server", Body(TRUE, JsUndef, JsStr("hello")))
    /\ pc[1] = "awaiting"

\* The POST /generate requests of the three deployments.
GenSess ==
    { s \in Sess : req[s].route \in {"generate-messages", "generate-server",
                                     "generate-part001"} }

\* C14: after a successful upstream call on POST /generate the reply is the
\* first choice's content when that content is present and non-empty, and
\* the placeholder when it is absent or empty; the reply is never empty.
C14_ReplyOrPlaceholder ==
    \A s \in GenSess :
       pc[s] = "replied" =>
          /\ jsonBody[s] =
                ReplyJson(IF completion[s].has /\ completion[s].chars # <<>>
                          THEN completion[s].chars
                          ELSE Placeholder)
          /\ jsonBody[s].text # <<>>

\* C15: the upstream is called at most once per request; when that call
\* fails on POST /generate the response is a 500 whose `error` is the thrown
\* value's message when it has one and "OpenAI error" otherwise, and the
\* call is not made again.
C15_OneCallThen500 ==
    \A s \in Sess :
       /\ Len(upReq[s]) <= 1
       /\ (s \in GenSess /\ upState[s] = "failed") =>
             /\ pc[s] = "errored"
             /\ status[s] = 500
             /\ jsonBody[s] =
                   ErrorJson(IF upErr[s].isObj /\ upErr[s].message # ""
                             THEN upErr[s].message
                             ELSE "OpenAI error")

C15_Witness ==
    /\ req[1].route = "generate-server"
    /\ upState[1] = "failed"
    /\ upErr[1] = Err(TRUE, "rate limit")
    /\ Len(upReq[1]) = 1

\* C16: while the credential is not configured, no request reaches the
\* upstream and every answered request is answered with a 500-class status.
C16_NoKeyAlways500 ==
    ~apiKey =>
       \A s \in Sess :
          /\ upReq[s] = <<>>
          /\ ended[s] => status[s] >= 500

\* The positions of the calls e in a log.
CallsOf(lg, e) == { i \in 1..Len(lg) : lg[i].ev = e }

\* C18: in every /chat-stream call the SSE headers are flushed before the
\* heartbeat timer is started and before the upstream is called, and no
\* frame is written before the headers; a failure to open the upstream
\* stream is therefore answered by an Error frame, never by the 500 JSON
\* body.
C18_HeadersFirst ==
    \A s \in StreamSess :
       /\ \A i \in CallsOf(log[s], "setInterval") \cup CallsOf(log[s], "create")
                   \cup CallsOf(log[s], "write") :
             \E h \in CallsOf(log[s], "flushHeaders") : h < i
       /\ (upState[s] = "rejected") =>
             /\ Cardinality(WritesOf(log[s], {"error"})) = 1
             /\ jsonBody[s] = NoJson
             /\ status[s] = 200

C18_Witness ==
    /\ req[1].route = "chat-stream"
    /\ upState[1] = "rejected"
    /\ WritesOf(log[1], {"error"}) # {}

\* The chunks of chs that carry a non-empty text.
TextChunks(chs) == { i \in 1..Len(chs) : chs[i].has /\ chs[i].text # "" }

\* C20: a chunk without content, or with the empty string as content,
\* produces no frame: as many Data frames are written as chunks with a
\* non-empty content were received, no Data frame carries an empty delta,
\* and receiving such a chunk changes neither the log nor the position of
\* the handler.
C20_EmptyChunksSkipped ==
    /\ [](\A s \in StreamSess :
            /\ Cardinality(WritesOf(log[s], {"data"})) =
                  Cardinality(TextChunks(upChunks[s]))
            /\ \A i \in WritesOf(log[s], {"data"}) : log[s][i].frame.text # "")
    /\ [][\A s \in StreamSess :
            (/\ Len(upChunks'[s]) = Len(upChunks[s]) + 1
             /\ Len(upChunks'[s]) \notin TextChunks(upChunks'[s]))
            => /\ log'[s] = log[s]
               /\ pc'[s] = pc[s]
               /\ ended'[s] = ended[s]
               /\ upState'[s] = upState[s]]_vars

C20_Witness ==
    /\ pc[1] = "completed"
    /\ upChunks[1] = <<Chunk(TRUE, ""), Chunk(TRUE, "Hel")>>
    /\ Cardinality(WritesOf(log[1], {"data"})) = 1

\* C17: the heartbeat timer runs for as long as the handler waits for the
\* upstream, to open the stream and for each next chunk; so when the first
\* frame of the upstream (a delta, or its end or failure) reaches the
\* client later than one heartbeat period after the timer was started, a
\* keep-alive comment has reached the client before it.
C17_KeepAliveBeforeLateFrame ==
    /\ [](\A s \in StreamSess :
            pc[s] \in {"opening", "streaming"} => hbActive[s])
    /\ [][\A s \in StreamSess :
            (/\ clock[s] > HeartbeatMs
             /\ StreamFrames(Wire(log[s])) = <<>>
             /\ StreamFrames(Wire(log'[s])) # <<>>)
            => \E i \in 1..Len(Wire(log[s])) :
                  Wire(log[s])[i] = KeepAlive]_vars

C17_Witness ==
    /\ clock[1] > HeartbeatMs
    /\ Wire(log[1]) = <<KeepAlive, Data("Hel")>>

\* Everything the program holds for session s.
SessState(s) ==
    <<origin[s], gate[s], acao[s], completion[s], clock[s], req[s], pc[s],
      status[s], jsonBody[s], sseHeaders[s], hbActive[s], ended[s],
      connected[s], log[s], upReq[s], upState[s], upChunks[s], upErr[s],
      ticks[s]>>

\* The Data frames handed to res.write in a log, in order.
DataWritten(lg) ==
    LET ws == SelectSeq(lg, LAMBDA e : e.ev = "write" /\ e.frame.kind = "data")
    IN  [i \in 1..Len(ws) |-> ws[i].frame]

\* C19: two /chat-stream sessions running at once do not touch each other:
\* in every interleaving of their upstream events, heartbeat ticks, failures
\* and disconnects, the Data frames written to a session's response are
\* those of its own upstream's deltas in that upstream's order, and every
\* step, the end or failure of a session with the cleanup it does or omits
\* included, changes the state of one session only (frames, terminal
\* outcome and heartbeat of the other stay as they were).
C19_SessionsIndependent ==
    /\ [](\A s \in StreamSess :
            DataWritten(log[s]) =
               DataOf(SelectSeq(upChunks[s],
                                LAMBDA c : c.has /\ c.text # "")))
    /\ [][\E s \in Sess :
            \A t \in Sess \ {s} : SessState(t)' = SessState(t)]_vars

C19_Witness ==
    /\ pc[1] = "completed" /\ ~hbActive[1]
    /\ Wire(log[1]) = <<Data("Hel"), Done>>
    /\ pc[2] = "failed" /\ hbActive[2]
    /\ Wire(log[2]) = <<Data("lo"), ErrorFrame("rate limit")>>

\* The origin gate has answered for s; it let s through.
Decided(s) == gate[s] # "pending"
Admitted(s) == gate[s] = "allowed"

\* The exact origins a deployment is configured with, as written, and as
\* the running program holds them.
RuleList(d) ==
    IF d = "part_000" THEN STATIC_ALLOW
    ELSE { env[i] : i \in 1..Len(env) } \cup {Localhost}

ExactList(d) ==
    IF d = "part_000" THEN STATIC_ALLOW
    ELSE IF d = "server" THEN AllowedOriginsServer(env)
    ELSE AllowedOrigins001(env)

\* The host of o, as deployment d reads it (hostname in part_000, host with
\* its port in server.js), ends with a suffix d is configured with.
SuffixHost(d, o) ==
    /\ o.kind = "url"
    /\ \/ /\ d = "part_000"
          /\ \/ EndsWith(o.labels, <<"zendesk", "com">>)
             \/ EndsWith(o.labels, <<"zdusercontent", "com">>)
       \/ /\ d = "server"
          /\ o.port = ""
          /\ EndsWith(o.labels, <<"apps", "zdusercontent", "com">>)

C12_TrailingSlashIgnored ==
    \A s \in Sess :
       (/\ Decided(s)
        /\ origin[s].kind = "url"
        /\ normalize(origin[s]) \in
              { normalize(x) : x \in RuleList(Deployment(req[s].route)) })
       => Admitted(s)

\* C13: a request whose origin the gate rejects gets no
\* Access-Control-Allow-Origin header and is still handled: the route
\* handler runs and the status is the one the same request gets when it is
\* let through.
C13_RejectedStillServed ==
    \A s \in Sess :
       (Decided(s) /\ ~Admitted(s)) =>
          /\ acao[s] = AbsentOrigin
          /\ pc[s] # "blocked"
          /\ \A t \in Sess :
                (/\ req[t] = req[s]
                 /\ Admitted(t)
                 /\ ended[s] /\ ended[t])
                => status[s] = status[t]

====
